---- MODULE Spec2Model ----
(***************************************************************************)
(* Offline synchronisation engine of edgemed-agent: the encrypted local    *)
(* queue (local/services/queue_manager.py), the drain executed by the      *)
(* Sync Worker (local/services/sync_worker.py) and the remote /v1/sync     *)
(* endpoint (cloud/routers/sync.py).                                        *)
(***************************************************************************)
EXTENDS Integers, Sequences, FiniteSets, Bags, TLC

\* ------------------------------------------------------------------ bounds
\* highest max_repairs validate_and_repair is called with
MaxRepairs == 2
\* longest string of a validated record, in words
MaxWords == 5
\* longest list of a validated record, in entries
MaxEntries == 2
\* total number of enqueue calls in a behaviour (one uuid4 token each)
MaxEnqueue == 2
\* highest retry_count a row is driven to
MaxRetry == 1
\* highest value of the wall clock read by datetime('now')
MaxClock == 1
\* SYNC_BATCH_SIZE setting of the device
BatchSize == 2
\* number of requests other clients post to /v1/sync
MaxPosts == 2

\* ------------------------------------------------------------ input domains
NoteIds == {"n1", "n2"}
Modes == {"demo", "prod"}
DEVICE_ID == "local-dev-001"

\* A payload is the dict handed to enqueue: a record, its flags and an
\* optional raw note text.  "recBad" is a record that is not a valid
\* ClinicalRecord (SyncItem construction raises a ValidationError on it).
NoText == "null"
Payloads ==
    { [record |-> "recA",   flags |-> "flagsA", raw_note_text |-> NoText],
      [record |-> "recB",   flags |-> "flagsB", raw_note_text |-> "rawB"],
      [record |-> "recBad", flags |-> "flagsA", raw_note_text |-> NoText] }

ValidRecords == {"recA", "recB"}

\* every piece of plaintext content a payload carries
PlaintextContent ==
    UNION { {p.record, p.flags, p.raw_note_text} : p \in Payloads } \ {NoText}

\* fail_reason values are pairs <<kind, detail>>; NULL is the column default
NULL == <<"NULL", "">>

VARIABLES
    queue_items,   \* the queue_items table: a set of rows
    sync_attempts, \* the sync_attempts table: a sequence of audit rows
    now,           \* the clock datetime('now') reads
    tokens,        \* number of uuid4 tokens drawn so far
    issued,        \* the idempotency keys returned by enqueue, in call order
    MODE,          \* settings.MODE of the device
    ex,            \* per drain execution: the locals of sync_batch
    rh,            \* per connection: the locals of the /v1/sync handler
    remote_keys,   \* idempotency_keys collection of the remote
    encounters,    \* encounters collection of the remote
    enc_writes,    \* number of encounter writes performed per idempotency key
    accepted,      \* <<key, record>> pairs the remote answered as synced
    posted,        \* number of requests posted by other clients of /v1/sync
    ret,           \* what the last read operation of the queue returned
    running,       \* SyncWorker._running
    backoff,       \* SyncWorker._backoff, in units of 1/32 second
    min_backoff,   \* SyncWorker._min_backoff, in units of 1/32 second
    loop_pc,       \* where the thread of _run_loop stands
    outcome,       \* the branch the last iteration of _run_loop took
    stale_pc,      \* where an earlier thread of _run_loop stands, if any
    vr             \* the locals of validate_and_repair

qvars == <<queue_items, sync_attempts, now, tokens, issued>>
wvars == <<MODE, ex>>
rvars == <<rh, remote_keys, encounters, enc_writes, accepted, posted>>
lvars == <<running, backoff, min_backoff, loop_pc, outcome, stale_pc>>
nvars == <<ret, lvars, vr>>
vars == <<queue_items, sync_attempts, now, tokens, issued, MODE, ex,
          rh, remote_keys, encounters, enc_writes, accepted, posted,
          ret, running, backoff, min_backoff, loop_pc, outcome, stale_pc,
          vr>>

\* --------------------------------------------------------------- crypto
\* TinkAEAD.encrypt: the ciphertext is an opaque box bound to the
\* associated data it was produced with.
Encrypt(plaintext, associated_data) ==
    [box |-> plaintext, aad |-> associated_data, intact |-> TRUE]

\* a decryption that accepts any associated data
DecryptOkAnyAad(ciphertext, associated_data) == ciphertext.intact

\* TinkAEAD.decrypt raises unless the ciphertext is the one encrypt
\* produced and the associated data is the one it was produced with
DecryptOk(ciphertext, associated_data) ==
    ciphertext.intact /\ ciphertext.aad = associated_data

\* TinkAEAD.decrypt: the plaintext, when the associated data matches
Decrypt(ciphertext, associated_data) == ciphertext.box

\* json.dumps(payload).encode("utf-8"): the dict becomes a text listing
\* its members in order
json_dumps(payload) ==
    <<"record", payload.record, "flags", payload.flags,
      "raw_note_text", payload.raw_note_text>>

\* json.loads(plaintext): the text is parsed back into a dict
json_loads(text) ==
    [record |-> text[2], flags |-> text[4], raw_note_text |-> text[6]]

\* QueueManager.decrypt_payload, when the decryption does not raise
decrypt_payload(note_id, ciphertext) == json_loads(Decrypt(ciphertext, note_id))

\* ---------------------------------------------------------- schema.sql
\* column defaults of a freshly inserted row
DefaultRetryCount == 0
DefaultFailReason == NULL

\* rows the PRIMARY KEY on note_id makes INSERT OR REPLACE delete
ConflictingRows(T, row) == { r \in T : r.note_id = row.note_id }

\* ------------------------------------------------------- queue operations
\* a key that leaves the uuid4 token out
IdempotencyKeyWithoutToken(note_id, token) == <<DEVICE_ID, note_id, 0>>

\* f"{settings.DEVICE_ID}:{note_id}:{uuid.uuid4()}"
IdempotencyKey(note_id, token) == <<DEVICE_ID, note_id, token>>

\* the row enqueue's VALUES clause describes; the columns it leaves out
\* (fail_reason, retry_count) take their defaults
NewRow(note_id, key, mode, ciphertext, t) ==
    [ note_id         |-> note_id,
      idempotency_key |-> key,
      mode            |-> mode,
      ciphertext      |-> ciphertext,
      status          |-> "queued",
      fail_reason     |-> DefaultFailReason,
      retry_count     |-> DefaultRetryCount,
      created_at      |-> t ]

\* a plain INSERT that leaves the old row of the note_id in place
InsertOnly(T, note_id, key, mode, ciphertext, t) ==
    T \cup {NewRow(note_id, key, mode, ciphertext, t)}

\* enqueue's INSERT OR REPLACE: the conflicting rows go, the new row comes
InsertOrReplace(T, note_id, key, mode, ciphertext, t) ==
    (T \ ConflictingRows(T, NewRow(note_id, key, mode, ciphertext, t)))
      \cup {NewRow(note_id, key, mode, ciphertext, t)}

SetStatus(T, note_id, status, t) ==
    { IF r.note_id = note_id
        THEN [r EXCEPT !.status = status]
        ELSE r : r \in T }

\* UPDATE ... SET status='syncing' WHERE note_id=?
mark_syncing(T, note_id, t) == SetStatus(T, note_id, "syncing", t)

\* UPDATE ... SET status='synced' WHERE note_id=?
mark_synced(T, note_id, t) == SetStatus(T, note_id, "synced", t)

\* a mark_failed that forgets retry_count
mark_failed_without_count(T, note_id, reason, t) ==
    { IF r.note_id = note_id
        THEN [r EXCEPT !.status = "failed", !.fail_reason = reason]
        ELSE r : r \in T }

\* UPDATE ... SET status='failed', fail_reason=?, retry_count=retry_count+1
mark_failed(T, note_id, reason, t) ==
    { IF r.note_id = note_id
        THEN [r EXCEPT !.status = "failed", !.fail_reason = reason,
                       !.retry_count = r.retry_count + 1]
        ELSE r : r \in T }

\* UPDATE ... SET status='queued' WHERE note_id=?
reset_for_retry(T, note_id, t) == SetStatus(T, note_id, "queued", t)

Min(a, b) == IF a < b THEN a ELSE b

\* WHERE status = 'queued'
WhereQueued(T) == { r \in T : r.status = "queued" }

\* ORDER BY created_at ASC: the orders the engine can deliver the rows in
\* (rows of equal created_at come in an order the engine picks)
RECURSIVE OrderByCreatedAtAsc(_)
OrderByCreatedAtAsc(Q) ==
    IF Q = {} THEN {<<>>}
    ELSE UNION { { <<r>> \o s : s \in OrderByCreatedAtAsc(Q \ {r}) } :
                 r \in { x \in Q : \A y \in Q : x.created_at <= y.created_at } }

\* ORDER BY created_at DESC
RECURSIVE OrderByCreatedAtDesc(_)
OrderByCreatedAtDesc(Q) ==
    IF Q = {} THEN {<<>>}
    ELSE UNION { { <<r>> \o s : s \in OrderByCreatedAtDesc(Q \ {r}) } :
                 r \in { x \in Q : \A y \in Q : x.created_at >= y.created_at } }

\* LIMIT ?: the first limit rows (SQLite takes a negative limit as none)
Limit(s, limit) ==
    IF limit < 0 THEN s ELSE SubSeq(s, 1, Min(limit, Len(s)))

\* SELECT note_id, idempotency_key, mode, ciphertext, retry_count, created_at
PendingColumns(r) ==
    [ note_id         |-> r.note_id,
      idempotency_key |-> r.idempotency_key,
      mode            |-> r.mode,
      ciphertext      |-> r.ciphertext,
      retry_count     |-> r.retry_count,
      created_at      |-> r.created_at ]

SelectPending(s) == [i \in DOMAIN s |-> PendingColumns(s[i])]

\* a get_pending that hands out the newest rows first
get_pending_newest_first(T, limit) ==
    { SelectPending(Limit(s, limit)) : s \in OrderByCreatedAtDesc(WhereQueued(T)) }

\* get_pending(limit): the lists the query can return
get_pending(T, limit) ==
    { SelectPending(Limit(s, limit)) : s \in OrderByCreatedAtAsc(WhereQueued(T)) }

NoPayload == [record |-> "", flags |-> "", raw_note_text |-> NoText]

\* reasons a caller can hand to mark_failed
TransportError == <<"ConnectError", "">>

\* ------------------------------------------------------------ queue actions
QInit ==
    /\ queue_items = {}
    /\ sync_attempts = EmptyBag
    /\ now = 0
    /\ tokens = 0
    /\ issued = <<>>

\* datetime('now') advances
Tick ==
    /\ now < MaxClock
    /\ now' = now + 1
    /\ UNCHANGED <<queue_items, sync_attempts, tokens, issued>>
    /\ UNCHANGED <<wvars, rvars>>
    /\ UNCHANGED nvars

\* QueueManager.enqueue(note_id, payload, mode)
EnqueueRows(n, payload, mode) ==
    InsertOrReplace(queue_items, n, IdempotencyKey(n, tokens + 1), mode,
                    Encrypt(json_dumps(payload), n), now)

Enqueue(n, payload, mode) ==
    /\ tokens < MaxEnqueue
    /\ tokens' = tokens + 1
    /\ queue_items' = EnqueueRows(n, payload, mode)
    /\ issued' = Append(issued, IdempotencyKey(n, tokens + 1))
    /\ UNCHANGED <<sync_attempts, now>>
    /\ UNCHANGED <<wvars, rvars>>
    /\ UNCHANGED nvars

\* ---------------------------------------- QueueManager called operation by
\* operation, in any order (as tests/test_queue_manager.py drives it)
MarkSyncing(n) ==
    /\ queue_items' = mark_syncing(queue_items, n, now)
    /\ UNCHANGED <<sync_attempts, now, tokens, issued>>
    /\ UNCHANGED <<wvars, rvars>>
    /\ UNCHANGED nvars

MarkSynced(n) ==
    /\ queue_items' = mark_synced(queue_items, n, now)
    /\ UNCHANGED <<sync_attempts, now, tokens, issued>>
    /\ UNCHANGED <<wvars, rvars>>
    /\ UNCHANGED nvars

MarkFailed(n, reason) ==
    /\ \A r \in queue_items : r.note_id = n => r.retry_count < MaxRetry
    /\ queue_items' = mark_failed(queue_items, n, reason, now)
    /\ UNCHANGED <<sync_attempts, now, tokens, issued>>
    /\ UNCHANGED <<wvars, rvars>>
    /\ UNCHANGED nvars

ResetForRetry(n) ==
    /\ queue_items' = reset_for_retry(queue_items, n, now)
    /\ UNCHANGED <<sync_attempts, now, tokens, issued>>
    /\ UNCHANGED <<wvars, rvars>>
    /\ UNCHANGED nvars

FailReasons == { TransportError }

\* payloads the tests of the queue enqueue: well-formed ones
QueuePayloads == { p \in Payloads : p.record \in ValidRecords }

NextQueue ==
    \/ Tick
    \/ \E n \in NoteIds, p \in QueuePayloads, m \in Modes : Enqueue(n, p, m)
    \/ \E n \in NoteIds : MarkSyncing(n)
    \/ \E n \in NoteIds : MarkSynced(n)
    \/ \E n \in NoteIds, reason \in FailReasons : MarkFailed(n, reason)
    \/ \E n \in NoteIds : ResetForRetry(n)

\* --------------------------------------------------- SyncWorker.sync_batch
\* the background worker thread and the POST /local/sync/trigger request
Executors == {"worker", "trigger"}

NoResp == [code |-> 0, synced |-> <<>>, failed |-> <<>>]
\* no call of sync_batch has returned since the last one began
NoResult == [synced_count |-> -1, failed_count |-> -1]

IdleEx == [pc |-> "idle", pending |-> <<>>, idx |-> 0, items |-> <<>>,
           resp |-> NoResp, result |-> NoResult]

NoReq == [device_id |-> "", mode |-> "", anonymous |-> TRUE, items |-> <<>>]
IdleRh == [pc |-> "none", req |-> NoReq, idx |-> 0, code |-> 0,
           synced |-> <<>>, failed |-> <<>>]

\* str(e) of the pydantic ValidationError SyncItem(...) raises: the message
\* quotes the offending input value
ValidationErrorMessage(payload) == <<"ValidationError", payload.record>>
DecryptErrorMessage == <<"TinkError", "Decryption failed">>

\* a stripping rule that looks at the device setting instead of the row
OutboundRawTextByDeviceMode(row, payload) ==
    IF MODE = "demo" THEN NoText ELSE payload.raw_note_text

\* lines 93-95: raw text is dropped when the row was enqueued in demo mode
OutboundRawText(row, payload) ==
    IF row.mode = "demo" THEN NoText ELSE payload.raw_note_text

\* lines 97-105: the SyncItem built from a pending row
SyncItem(row, payload) ==
    [ note_id         |-> row.note_id,
      record          |-> payload.record,
      flags           |-> payload.flags,
      created_at      |-> row.created_at,
      idempotency_key |-> row.idempotency_key,
      raw_note_text   |-> OutboundRawText(row, payload) ]

SyncAttempt(note_id, success, code, error) ==
    [note_id |-> note_id, success |-> success, response_code |-> code,
     error_message |-> error]

\* sync_batch returns {synced_count: sc, failed_count: fc}: its locals are gone
Return(e, sc, fc) ==
    ex' = [ex EXCEPT ![e] = [IdleEx EXCEPT !.result =
                               [synced_count |-> sc, failed_count |-> fc]]]

\* lines 82-84: pending = get_pending(limit); return when nothing is queued
BeginBatch(e) ==
    /\ ex[e].pc = "idle"
    /\ \E pend \in get_pending(queue_items, BatchSize) :
         IF pend = <<>>
           THEN Return(e, 0, 0)
           ELSE ex' = [ex EXCEPT ![e] = [IdleEx EXCEPT !.pc = "mark",
                                            !.pending = pend, !.idx = 1]]
    /\ UNCHANGED <<queue_items, sync_attempts, now, tokens, issued, MODE>>
    /\ UNCHANGED rvars
    /\ UNCHANGED nvars

\* line 90: mark_syncing(row["note_id"])
PrepareMark(e) ==
    /\ ex[e].pc = "mark"
    /\ LET row == ex[e].pending[ex[e].idx]
       IN  /\ queue_items' = mark_syncing(queue_items, row.note_id, now)
    /\ ex' = [ex EXCEPT ![e].pc = "build"]
    /\ UNCHANGED <<sync_attempts, now, tokens, issued, MODE>>
    /\ UNCHANGED rvars
    /\ UNCHANGED nvars

\* where the per-row loop of lines 89-110 goes after row idx
AfterRow(e, items) ==
    IF ex[e].idx < Len(ex[e].pending)
      THEN ex' = [ex EXCEPT ![e].pc = "mark", ![e].idx = ex[e].idx + 1,
                            ![e].items = items]
      ELSE IF items = <<>>
        THEN Return(e, 0, Len(ex[e].pending))
        ELSE ex' = [ex EXCEPT ![e].pc = "post", ![e].idx = 0,
                              ![e].items = items]

\* a preparation whose try encloses the for: the first row that raises is
\* marked failed and ends the batch
PrepareBuildAborting(e) ==
    /\ ex[e].pc = "build"
    /\ LET row == ex[e].pending[ex[e].idx]
           payload == decrypt_payload(row.note_id, row.ciphertext)
       IN  IF ~DecryptOk(row.ciphertext, row.note_id)
             THEN /\ queue_items' = mark_failed(queue_items, row.note_id,
                                                DecryptErrorMessage, now)
                  /\ Return(e, 0, Len(ex[e].pending))
           ELSE IF payload.record \notin ValidRecords
             THEN /\ queue_items' = mark_failed(queue_items, row.note_id,
                                        ValidationErrorMessage(payload), now)
                  /\ Return(e, 0, Len(ex[e].pending))
           ELSE   /\ AfterRow(e, Append(ex[e].items, SyncItem(row, payload)))
                  /\ UNCHANGED queue_items
    /\ UNCHANGED <<sync_attempts, now, tokens, issued, MODE>>
    /\ UNCHANGED rvars
    /\ UNCHANGED nvars

\* lines 91-110: decrypt the row read by get_pending and build its SyncItem;
\* an exception marks the row failed with str(e)
PrepareBuild(e) ==
    /\ ex[e].pc = "build"
    /\ LET row == ex[e].pending[ex[e].idx]
           payload == decrypt_payload(row.note_id, row.ciphertext)
       IN  IF ~DecryptOk(row.ciphertext, row.note_id)
             THEN /\ queue_items' = mark_failed(queue_items, row.note_id,
                                                DecryptErrorMessage, now)
                  /\ AfterRow(e, ex[e].items)
           ELSE IF payload.record \notin ValidRecords
             THEN /\ queue_items' = mark_failed(queue_items, row.note_id,
                                        ValidationErrorMessage(payload), now)
                  /\ AfterRow(e, ex[e].items)
           ELSE   /\ AfterRow(e, Append(ex[e].items, SyncItem(row, payload)))
                  /\ UNCHANGED queue_items
    /\ UNCHANGED <<sync_attempts, now, tokens, issued, MODE>>
    /\ UNCHANGED rvars
    /\ UNCHANGED nvars

\* lines 115-128: the request is built and reaches the remote; it carries
\* no Authorization header, so the remote sees the anonymous guest
Post(e) ==
    /\ ex[e].pc = "post"
    /\ rh[e].pc = "none"
    /\ ex' = [ex EXCEPT ![e].pc = "wait"]
    /\ rh' = [rh EXCEPT ![e] = [IdleRh EXCEPT !.pc = "arrived",
                 !.req = [device_id |-> DEVICE_ID, mode |-> MODE,
                          anonymous |-> TRUE, items |-> ex[e].items]]]
    /\ UNCHANGED <<queue_items, sync_attempts, now, tokens, issued, MODE>>
    /\ UNCHANGED <<remote_keys, encounters, enc_writes, accepted, posted>>
    /\ UNCHANGED nvars

\* lines 152-154: the post raises (no connection, or the 30s timeout while
\* the remote may still be handling the request)
TransportFail(e) ==
    /\ ex[e].pc \in {"post", "wait"}
    /\ ex' = [ex EXCEPT ![e].pc = "except", ![e].idx = 1]
    /\ UNCHANGED <<queue_items, sync_attempts, now, tokens, issued, MODE>>
    /\ UNCHANGED rvars
    /\ UNCHANGED nvars

\* an except branch that returns after the first note of the batch
ExceptMarkFirstOnly(e) ==
    /\ ex[e].pc = "except"
    /\ LET nid == ex[e].items[ex[e].idx].note_id
       IN  /\ queue_items' = mark_failed(queue_items, nid, TransportError, now)
           /\ sync_attempts' = sync_attempts (+)
                 SetToBag({SyncAttempt(nid, FALSE, 0, TransportError)})
    /\ Return(e, 0, Len(ex[e].items))
    /\ UNCHANGED <<now, tokens, issued, MODE>>
    /\ UNCHANGED rvars
    /\ UNCHANGED nvars

\* lines 155-158: every note of the batch is marked failed and audited
ExceptMark(e) ==
    /\ ex[e].pc = "except"
    /\ LET nid == ex[e].items[ex[e].idx].note_id
       IN  /\ queue_items' = mark_failed(queue_items, nid, TransportError, now)
           /\ sync_attempts' = sync_attempts (+) 
                 SetToBag({SyncAttempt(nid, FALSE, 0, TransportError)})
    /\ IF ex[e].idx < Len(ex[e].items)
         THEN ex' = [ex EXCEPT ![e].idx = ex[e].idx + 1]
         ELSE Return(e, 0, Len(ex[e].items))
    /\ UNCHANGED <<now, tokens, issued, MODE>>
    /\ UNCHANGED rvars
    /\ UNCHANGED nvars

\* line 130: resp = r.json(), the body of the reply
Receive(e) ==
    /\ ex[e].pc = "wait"
    /\ rh[e].pc = "done"
    /\ LET resp == [code |-> rh[e].code, synced |-> rh[e].synced,
                    failed |-> rh[e].failed]
       IN  IF resp.synced = <<>> /\ resp.failed = <<>>
             THEN Return(e, 0, 0)
             ELSE ex' = [ex EXCEPT ![e].pc = "apply", ![e].idx = 1,
                                   ![e].resp = resp]
    /\ rh' = [rh EXCEPT ![e] = IdleRh]
    /\ UNCHANGED <<queue_items, sync_attempts, now, tokens, issued, MODE>>
    /\ UNCHANGED <<remote_keys, encounters, enc_writes, accepted, posted>>
    /\ UNCHANGED nvars

\* lines 132-140: one entry of resp["synced"], then of resp["failed"], is
\* applied to the row filed under its note_id and audited
Apply(e) ==
    /\ ex[e].pc = "apply"
    /\ LET resp == ex[e].resp
           i == ex[e].idx
           ns == Len(resp.synced)
       IN  /\ IF i <= ns
                THEN /\ queue_items' = mark_synced(queue_items, resp.synced[i], now)
                     /\ sync_attempts' = sync_attempts (+) 
                           SetToBag({SyncAttempt(resp.synced[i], TRUE, resp.code, NULL)})
                ELSE LET fail == resp.failed[i - ns]
                     IN  /\ queue_items' = mark_failed(queue_items,
                                              fail.note_id, fail.reason, now)
                         /\ sync_attempts' = sync_attempts (+) 
                               SetToBag({SyncAttempt(fail.note_id, FALSE,
                                                     resp.code, fail.reason)})
           /\ IF i < ns + Len(resp.failed)
                THEN ex' = [ex EXCEPT ![e].idx = i + 1]
                ELSE Return(e, ns, Len(resp.failed))
    /\ UNCHANGED <<now, tokens, issued, MODE>>
    /\ UNCHANGED rvars
    /\ UNCHANGED nvars

\* ------------------------------------------------- POST /v1/sync (remote)
DemoRawTextReason == <<"remote", "raw_note_text must be null in demo mode">>
StorageErrorReason == <<"remote", "storage error">>

AllKeys == { IdempotencyKey(n, t) : n \in NoteIds, t \in 1..MaxEnqueue }

\* the handler moves on to the next item, or to its reply after the last
NextItem(h) ==
    IF h.idx < Len(h.req.items)
      THEN [h EXCEPT !.pc = "item", !.idx = h.idx + 1]
      ELSE [h EXCEPT !.pc = "done", !.code = 200]

\* get_current_user raises (rate limit 429, or 401): an error body without
\* synced/failed lists is the reply
RemoteReject(e) ==
    /\ rh[e].pc = "arrived"
    /\ rh' = [rh EXCEPT ![e].pc = "done", ![e].code = 429]
    /\ UNCHANGED <<qvars, wvars>>
    /\ UNCHANGED <<remote_keys, encounters, enc_writes, accepted, posted>>
    /\ UNCHANGED nvars

\* lines 29-34: prod mode is refused to an anonymous user
RemoteAuth(e) ==
    /\ rh[e].pc = "arrived"
    /\ IF rh[e].req.mode = "prod" /\ rh[e].req.anonymous
         THEN rh' = [rh EXCEPT ![e].pc = "done", ![e].code = 403]
         ELSE IF rh[e].req.items = <<>>
           THEN rh' = [rh EXCEPT ![e].pc = "done", ![e].code = 200]
           ELSE rh' = [rh EXCEPT ![e].pc = "item", ![e].idx = 1]
    /\ UNCHANGED <<qvars, wvars>>
    /\ UNCHANGED <<remote_keys, encounters, enc_writes, accepted, posted>>
    /\ UNCHANGED nvars

\* a handler without the continue of line 50: a note recognised by its key
\* is reported synced and then written and reported again
RemoteCheckFallsThrough(e) ==
    /\ rh[e].pc = "item"
    /\ LET h == rh[e]
           item == h.req.items[h.idx]
       IN  IF h.req.mode = "demo" /\ item.raw_note_text # NoText
             THEN /\ rh' = [rh EXCEPT ![e] = NextItem([h EXCEPT !.failed =
                               Append(h.failed, [note_id |-> item.note_id,
                                                 reason |-> DemoRawTextReason])])]
                  /\ UNCHANGED accepted
           ELSE IF item.idempotency_key \in remote_keys
             THEN /\ rh' = [rh EXCEPT ![e].pc = "write", ![e].synced =
                               Append(h.synced, item.note_id)]
                  /\ accepted' = accepted \cup
                                   {<<item.idempotency_key, item.record>>}
           ELSE   /\ rh' = [rh EXCEPT ![e].pc = "write"]
                  /\ UNCHANGED accepted
    /\ UNCHANGED <<qvars, wvars>>
    /\ UNCHANGED <<remote_keys, encounters, enc_writes, posted>>
    /\ UNCHANGED nvars

\* lines 37-50: the demo raw-text rule, then check_idempotency_key
RemoteCheck(e) ==
    /\ rh[e].pc = "item"
    /\ LET h == rh[e]
           item == h.req.items[h.idx]
       IN  IF h.req.mode = "demo" /\ item.raw_note_text # NoText
             THEN /\ rh' = [rh EXCEPT ![e] = NextItem([h EXCEPT !.failed =
                               Append(h.failed, [note_id |-> item.note_id,
                                                 reason |-> DemoRawTextReason])])]
                  /\ UNCHANGED accepted
           ELSE IF item.idempotency_key \in remote_keys
             THEN /\ rh' = [rh EXCEPT ![e] = NextItem([h EXCEPT !.synced =
                               Append(h.synced, item.note_id)])]
                  /\ accepted' = accepted \cup
                                   {<<item.idempotency_key, item.record>>}
           ELSE   /\ rh' = [rh EXCEPT ![e].pc = "write"]
                  /\ UNCHANGED accepted
    /\ UNCHANGED <<qvars, wvars>>
    /\ UNCHANGED <<remote_keys, encounters, enc_writes, posted>>
    /\ UNCHANGED nvars

\* save_encounter: the document encounters/{note_id} of the mode's
\* collection is set to the record
SaveEncounter(E, mode, item) ==
    { d \in E : ~(d.mode = mode /\ d.note_id = item.note_id) }
      \cup {[mode |-> mode, note_id |-> item.note_id, record |-> item.record]}

\* lines 52-61: save_encounter_from_sync
RemoteWrite(e) ==
    /\ rh[e].pc = "write"
    /\ LET h == rh[e]
           item == h.req.items[h.idx]
       IN  /\ encounters' = SaveEncounter(encounters, h.req.mode, item)
           /\ enc_writes' = [enc_writes EXCEPT ![item.idempotency_key] = @ + 1]
    /\ rh' = [rh EXCEPT ![e].pc = "savekey"]
    /\ UNCHANGED <<qvars, wvars>>
    /\ UNCHANGED <<remote_keys, accepted, posted>>
    /\ UNCHANGED nvars

\* lines 63-72: (no raw note is stored outside prod) save_idempotency_key,
\* then the note is reported synced
RemoteSaveKey(e) ==
    /\ rh[e].pc = "savekey"
    /\ LET h == rh[e]
           item == h.req.items[h.idx]
       IN  /\ remote_keys' = remote_keys \cup {item.idempotency_key}
           /\ accepted' = accepted \cup {<<item.idempotency_key, item.record>>}
           /\ rh' = [rh EXCEPT ![e] = NextItem([h EXCEPT !.synced =
                        Append(h.synced, item.note_id)])]
    /\ UNCHANGED <<qvars, wvars>>
    /\ UNCHANGED <<encounters, enc_writes, posted>>
    /\ UNCHANGED nvars

\* lines 73-75: a Firestore call of the item raises; the item is reported
\* failed with str(e)
RemoteStorageError(e) ==
    /\ rh[e].pc \in {"item", "write", "savekey"}
    /\ LET h == rh[e]
           item == h.req.items[h.idx]
       IN  /\ ~(h.pc = "item" /\ h.req.mode = "demo"
                  /\ item.raw_note_text # NoText)
           /\ rh' = [rh EXCEPT ![e] = NextItem([h EXCEPT !.failed =
                        Append(h.failed, [note_id |-> item.note_id,
                                          reason |-> StorageErrorReason])])]
    /\ UNCHANGED <<qvars, wvars>>
    /\ UNCHANGED <<remote_keys, encounters, enc_writes, accepted, posted>>
    /\ UNCHANGED nvars

\* the reply of a request whose client gave up (timeout) is dropped
DropReply(e) ==
    /\ rh[e].pc = "done"
    /\ ex[e].pc # "wait"
    /\ rh' = [rh EXCEPT ![e] = IdleRh]
    /\ UNCHANGED <<qvars, wvars>>
    /\ UNCHANGED <<remote_keys, encounters, enc_writes, accepted, posted>>
    /\ UNCHANGED nvars

\* any client of the endpoint posts a request
RequestItems ==
    { [ note_id         |-> n,
        record          |-> "recA",
        flags           |-> "flagsA",
        created_at      |-> 0,
        idempotency_key |-> IdempotencyKey(n, 1),
        raw_note_text   |-> raw ] : n \in NoteIds, raw \in {NoText, "rawB"} }

RequestItemLists ==
    { <<i>> : i \in RequestItems } \cup
    { <<i, j>> : i \in { r \in RequestItems : r.note_id = "n1" },
                 j \in { r \in RequestItems : r.raw_note_text = NoText } }

ClientPost(c, mode, anonymous, items) ==
    /\ posted < MaxPosts
    /\ rh[c].pc = "none"
    /\ posted' = posted + 1
    /\ rh' = [rh EXCEPT ![c] = [IdleRh EXCEPT !.pc = "arrived",
                 !.req = [device_id |-> DEVICE_ID, mode |-> mode,
                          anonymous |-> anonymous, items |-> items]]]
    /\ UNCHANGED <<qvars, wvars>>
    /\ UNCHANGED <<remote_keys, encounters, enc_writes, accepted>>
    /\ UNCHANGED nvars

\* ------------------------------------------------------ SyncWorker loop
\* seconds are counted in units of 1/32, which keeps every product with
\* 1.5 the loop can form below the cap an integer
Unit == 32
SYNC_INTERVAL_SECONDS == 30
\* values of the setting EDGEMED_SYNC_INTERVAL_SECONDS
IntervalSettings == {30, 600}
\* self._max_backoff = 300
MaxBackoff == 300

\* SyncWorker.__init__ with settings.SYNC_INTERVAL_SECONDS = interval
LInit(interval) ==
    /\ running = FALSE
    /\ backoff = interval * Unit
    /\ min_backoff = interval * Unit
    /\ loop_pc = "none"
    /\ outcome = "none"
    /\ stale_pc = "none"

\* a backoff that is not capped
BackoffUncapped(b) == (b * 3) \div 2

\* min(self._backoff * 1.5, self._max_backoff)
BackoffIdle(b) == Min((b * 3) \div 2, MaxBackoff * Unit)

\* min(self._backoff * 2, self._max_backoff)
BackoffOffline(b) == Min(b * 2, MaxBackoff * Unit)

\* SyncWorker.start(): no effect when running, else the thread is started
\* (a worker whose previous thread has ended, or that has none yet)
Start ==
    /\ ~running
    /\ loop_pc \in {"none", "done"}
    /\ running' = TRUE
    /\ loop_pc' = "top"
    /\ UNCHANGED <<stale_pc, backoff, min_backoff, outcome>>
    /\ UNCHANGED <<qvars, wvars, rvars, ret, vr>>

\* SyncWorker.stop()
Stop ==
    /\ running
    /\ running' = FALSE
    /\ UNCHANGED <<stale_pc, backoff, min_backoff, loop_pc, outcome>>
    /\ UNCHANGED <<qvars, wvars, rvars, ret, vr>>

\* line 55: while self._running
LoopTest ==
    /\ loop_pc = "top"
    /\ loop_pc' = IF running THEN "probe" ELSE "done"
    /\ UNCHANGED <<stale_pc, running, backoff, min_backoff, outcome>>
    /\ UNCHANGED <<qvars, wvars, rvars, ret, vr>>

\* lines 57, 63-65 and 72-78: check_connectivity() answers ok (False also
\* when the probe raises); on False the interval doubles
Probe(ok) ==
    /\ loop_pc = "probe"
    /\ IF ok
         THEN /\ loop_pc' = "batch"
              /\ ex' = [ex EXCEPT !["worker"] = IdleEx]
              /\ UNCHANGED <<backoff, outcome>>
         ELSE /\ loop_pc' = "sleep"
              /\ backoff' = BackoffOffline(backoff)
              /\ outcome' = "offline"
              /\ UNCHANGED ex
    /\ UNCHANGED <<stale_pc, running, min_backoff, MODE>>
    /\ UNCHANGED <<qvars, rvars, ret, vr>>

\* line 58: sync_batch() is entered
LoopBeginBatch ==
    /\ loop_pc = "batch"
    /\ ex["worker"].result = NoResult
    /\ BeginBatch("worker")

\* lines 59-62: sync_batch() has returned its summary
LoopAfterBatch ==
    /\ loop_pc = "batch"
    /\ ex["worker"].pc = "idle"
    /\ ex["worker"].result # NoResult
    /\ IF ex["worker"].result.synced_count > 0
         THEN backoff' = min_backoff /\ outcome' = "synced"
         ELSE backoff' = BackoffIdle(backoff) /\ outcome' = "idle"
    /\ loop_pc' = "sleep"
    /\ ex' = [ex EXCEPT !["worker"] = IdleEx]
    /\ UNCHANGED <<stale_pc, running, min_backoff, MODE>>
    /\ UNCHANGED <<qvars, rvars, ret, vr>>

\* an except clause that lets the exception end the thread
LoopExceptUncaught ==
    /\ loop_pc = "batch"
    /\ ex["worker"].pc \in {"idle", "mark", "build"}
    /\ ex["worker"].result = NoResult
    /\ ex' = [ex EXCEPT !["worker"] = IdleEx]
    /\ loop_pc' = "done"
    /\ outcome' = "raised"
    /\ UNCHANGED <<stale_pc, running, backoff, min_backoff, MODE>>
    /\ UNCHANGED <<qvars, rvars, ret, vr>>

\* lines 66-68: sync_batch() raises (a call on the database outside its
\* own try blocks fails); the loop logs and doubles the interval
LoopExcept ==
    /\ loop_pc = "batch"
    /\ ex["worker"].pc \in {"idle", "mark", "build"}
    /\ ex["worker"].result = NoResult
    /\ ex' = [ex EXCEPT !["worker"] = IdleEx]
    /\ backoff' = BackoffOffline(backoff)
    /\ outcome' = "raised"
    /\ loop_pc' = "sleep"
    /\ UNCHANGED <<stale_pc, running, min_backoff, MODE>>
    /\ UNCHANGED <<qvars, rvars, ret, vr>>

\* line 70: time.sleep(self._backoff) returns
Sleep ==
    /\ loop_pc = "sleep"
    /\ loop_pc' = "top"
    /\ UNCHANGED <<stale_pc, running, backoff, min_backoff, outcome>>
    /\ UNCHANGED <<qvars, wvars, rvars, ret, vr>>

\* SyncWorker.start() after stop(): _running is False, so a new thread is
\* started, while the thread stop() joined for 5 seconds is still in its
\* time.sleep (at most one such earlier thread is followed)
Restart ==
    /\ ~running
    /\ loop_pc = "sleep"
    /\ stale_pc \in {"none", "done"}
    /\ running' = TRUE
    /\ stale_pc' = loop_pc
    /\ loop_pc' = "top"
    /\ UNCHANGED <<backoff, min_backoff, outcome>>
    /\ UNCHANGED <<qvars, wvars, rvars, ret, vr>>

\* line 70 in the earlier thread: its time.sleep returns
StaleSleep ==
    /\ stale_pc = "sleep"
    /\ stale_pc' = "top"
    /\ UNCHANGED <<running, backoff, min_backoff, loop_pc, outcome>>
    /\ UNCHANGED <<qvars, wvars, rvars, ret, vr>>

\* line 55 in the earlier thread: while self._running
StaleTest ==
    /\ stale_pc = "top"
    /\ stale_pc' = IF running THEN "probe" ELSE "done"
    /\ UNCHANGED <<running, backoff, min_backoff, loop_pc, outcome>>
    /\ UNCHANGED <<qvars, wvars, rvars, ret, vr>>

\* lines 57 and 63-65 in the earlier thread: the probe finds the device
\* offline and the interval doubles
StaleProbe ==
    /\ stale_pc = "probe"
    /\ stale_pc' = "sleep"
    /\ backoff' = BackoffOffline(backoff)
    /\ outcome' = "offline"
    /\ UNCHANGED <<running, min_backoff, loop_pc>>
    /\ UNCHANGED <<qvars, wvars, rvars, ret, vr>>

\* start() and stop() are called in any order on a device that is offline
NextThreads ==
    \/ Start
    \/ Restart
    \/ Stop
    \/ LoopTest
    \/ Probe(FALSE)
    \/ Sleep
    \/ StaleSleep
    \/ StaleTest
    \/ StaleProbe

\* what the device saves while the loop runs
LoopPayload == [record |-> "recA", flags |-> "flagsA", raw_note_text |-> NoText]

NextLoop ==
    \/ Start
    \/ Stop
    \/ LoopTest
    \/ \E ok \in BOOLEAN : Probe(ok)
    \/ LoopBeginBatch
    \/ LoopAfterBatch
    \/ LoopExcept
    \/ Sleep
    \/ \E n \in NoteIds : Enqueue(n, LoopPayload, MODE)
    \/ PrepareMark("worker")
    \/ PrepareBuild("worker")
    \/ Post("worker")
    \/ TransportFail("worker")
    \/ ExceptMark("worker")
    \/ Receive("worker")
    \/ Apply("worker")
    \/ RemoteAuth("worker")
    \/ RemoteCheck("worker")
    \/ RemoteWrite("worker")
    \/ RemoteSaveKey("worker")
    \/ DropReply("worker")

\* ------------------------------------------------- queue read operations
NoRet == [op |-> "none", arg |-> <<>>, val |-> <<>>]

\* the bytes of a stored ciphertext are altered
Tampered(ciphertext) == [ciphertext EXCEPT !.intact = FALSE]

\* the database file is edited: the ciphertext of note n is altered
Tamper(n) ==
    /\ \E r \in queue_items : r.note_id = n /\ r.ciphertext.intact
    /\ queue_items' = { IF r.note_id = n
                          THEN [r EXCEPT !.ciphertext = Tampered(r.ciphertext)]
                          ELSE r : r \in queue_items }
    /\ UNCHANGED <<sync_attempts, now, tokens, issued>>
    /\ UNCHANGED <<wvars, rvars, nvars>>

\* the database file is edited: the ciphertext filed under note src is
\* copied onto the row of note dst
Relabel(src, dst) ==
    /\ src # dst
    /\ \E r \in queue_items : r.note_id = dst
    /\ \E q \in queue_items :
         /\ q.note_id = src
         /\ queue_items' = { IF r.note_id = dst
                               THEN [r EXCEPT !.ciphertext = q.ciphertext]
                               ELSE r : r \in queue_items }
    /\ UNCHANGED <<sync_attempts, now, tokens, issued>>
    /\ UNCHANGED <<wvars, rvars, nvars>>

DecryptionFailed == <<"error", "Decryption failed">>

\* QueueManager.decrypt_payload(note_id, ciphertext): the payload, or the
\* error TinkAEAD.decrypt raises
DecryptPayload(note_id, ciphertext) ==
    /\ ret' = [op |-> "decrypt_payload",
               arg |-> <<note_id, ciphertext>>,
               val |-> IF DecryptOk(ciphertext, note_id)
                         THEN <<"ok", decrypt_payload(note_id, ciphertext)>>
                         ELSE DecryptionFailed]
    /\ UNCHANGED <<qvars, wvars, rvars, lvars, vr>>

\* lines 176-192: the entry of one row, the payload merged into it when the
\* row decrypts and the error marker when decrypt_payload raises
DisplayEntry(r) ==
    IF DecryptOk(r.ciphertext, r.note_id)
      THEN [ note_id       |-> r.note_id,
             mode          |-> r.mode,
             status        |-> r.status,
             created_at    |-> r.created_at,
             record        |-> decrypt_payload(r.note_id, r.ciphertext).record,
             flags         |-> decrypt_payload(r.note_id, r.ciphertext).flags,
             raw_note_text |->
                 decrypt_payload(r.note_id, r.ciphertext).raw_note_text ]
      ELSE [ note_id    |-> r.note_id,
             mode       |-> r.mode,
             status     |-> r.status,
             created_at |-> r.created_at,
             error      |-> "Decryption failed" ]

\* lines 173-193: the loop over the rows appends one entry per row
RECURSIVE DisplayEntries(_)
DisplayEntries(rows) ==
    IF rows = <<>> THEN <<>>
    ELSE <<DisplayEntry(Head(rows))>> \o DisplayEntries(Tail(rows))

\* a loop that gives up at the first row that does not decrypt
RECURSIVE DisplayEntriesUntilFailure(_)
DisplayEntriesUntilFailure(rows) ==
    IF rows = <<>> THEN <<>>
    ELSE IF ~DecryptOk(Head(rows).ciphertext, Head(rows).note_id) THEN <<>>
    ELSE <<DisplayEntry(Head(rows))>> \o DisplayEntriesUntilFailure(Tail(rows))

\* a listing that gives up at the first row that does not decrypt
get_all_decrypted_until_failure(T) ==
    { DisplayEntriesUntilFailure(rows) : rows \in OrderByCreatedAtDesc(T) }

\* get_all_decrypted(): the lists the call can return
get_all_decrypted(T) ==
    { DisplayEntries(rows) : rows \in OrderByCreatedAtDesc(T) }

GetAllDecrypted ==
    /\ \E val \in get_all_decrypted(queue_items) :
         ret' = [op |-> "get_all_decrypted", arg |-> <<>>, val |-> val]
    /\ UNCHANGED <<qvars, wvars, rvars, lvars, vr>>

StoredCiphertexts == { r.ciphertext : r \in queue_items }

NextRead ==
    \/ Tick
    \/ \E n \in NoteIds, p \in QueuePayloads : Enqueue(n, p, MODE)
    \/ \E n \in NoteIds : Tamper(n)
    \/ \E n, m \in NoteIds : Relabel(n, m)
    \/ \E n \in NoteIds, c \in StoredCiphertexts : DecryptPayload(n, c)
    \/ GetAllDecrypted

\* ------------------------------------------------------------ validate
\* shared/constants.py
REQUIRED_FIELDS ==
    <<"chief_complaint", "hpi", "assessment", "plan", "medications",
      "allergies">>
CRITICAL_FIELDS == <<"medications", "allergies", "assessment">>
\* 0.8, in thousandths
COMPLETENESS_THRESHOLD == 800

\* the fields of a ClinicalRecord the model carries: the required ones and
\* one optional string
StrFields == {"chief_complaint", "hpi", "plan", "follow_up"}
ListFields == {"assessment", "medications", "allergies"}
RecordFields == StrFields \cup ListFields

\* A field value is [t, n, tag]: its type (none, str, list), its number of
\* whitespace-delimited words (str) or of entries (list), and a mark of its
\* content: "unknown" for the string unknown, "blank" for a string of
\* whitespace, "nkda" / "none" for a list with an entry that says so, a
\* topic word for chief complaint and assessment.
None == [t |-> "none", n |-> 0, tag |-> ""]
Str(n, tag) == [t |-> "str", n |-> n, tag |-> tag]
List(n, tag) == [t |-> "list", n |-> n, tag |-> tag]

\* ClinicalRecord(): strings default to None, collections to []
EmptyRecord ==
    [f \in RecordFields |-> IF f \in StrFields THEN None ELSE List(0, "")]

\* a presence test that compares a string with "" without stripping it
is_field_present_unstripped(record, f) ==
    /\ record[f].t # "none"
    /\ ~(record[f].t = "list" /\ record[f].n = 0)
    /\ ~(record[f].t = "str" /\ record[f].n = 0 /\ record[f].tag # "blank")

\* _is_field_present
is_field_present(record, f) ==
    /\ record[f].t # "none"
    /\ ~(record[f].t = "list" /\ record[f].n = 0)
    /\ ~(record[f].t = "str" /\ record[f].n = 0)

\* the fields of the list that are not present in the record, in order
RECURSIVE SelectFields(_, _)
SelectFields(fields, record) ==
    IF fields = <<>> THEN <<>>
    ELSE IF ~is_field_present(record, Head(fields))
      THEN <<Head(fields)>> \o SelectFields(Tail(fields), record)
      ELSE SelectFields(Tail(fields), record)

\* lines 86-89: the required fields that are not present
MissingFields(record) == SelectFields(REQUIRED_FIELDS, record)

\* _compute_confidence, one field
Confidence(record, f) ==
    IF ~is_field_present(record, f) THEN "low"
    ELSE IF record[f].t = "list"
      THEN (IF record[f].n >= 1 THEN "high" ELSE "low")
    ELSE IF record[f].t = "str"
      THEN (IF record[f].n >= 5 THEN "high"
            ELSE IF record[f].n >= 2 THEN "medium" ELSE "low")
    ELSE "medium"

compute_confidence(record) ==
    [f \in {REQUIRED_FIELDS[i] : i \in DOMAIN REQUIRED_FIELDS}
       |-> Confidence(record, f)]

\* CONFIDENCE_NUMERIC, in hundredths
CONFIDENCE_NUMERIC(level) ==
    IF level = "low" THEN 33 ELSE IF level = "medium" THEN 66 ELSE 100

RECURSIVE SumConfidence(_, _)
SumConfidence(fields, confidence) ==
    IF fields = <<>> THEN 0
    ELSE CONFIDENCE_NUMERIC(confidence[Head(fields)])
           + SumConfidence(Tail(fields), confidence)

InSeq(x, seq) == \E i \in DOMAIN seq : seq[i] = x

MissingCritical(missing) ==
    Cardinality({ i \in DOMAIN CRITICAL_FIELDS : InSeq(CRITICAL_FIELDS[i], missing) })

\* _compute_completeness in units of 1/3000: with 6 required and 3 critical
\* fields, 0.5 * present / 6 is 250 per present field, 0.3 * (1 - mc / 3) is
\* 900 - 300 * mc, and 0.2 * mean(confidence) is the sum of the hundredths
compute_completeness(missing, confidence) ==
    LET score == 250 * (Len(REQUIRED_FIELDS) - Len(missing))
                   + (900 - 300 * MissingCritical(missing))
                   + SumConfidence(REQUIRED_FIELDS, confidence)
    IN  IF score < 0 THEN 0 ELSE IF score > 3000 THEN 3000 ELSE score

\* a score cut off after its third decimal
Round3Truncated(score) == score \div 3

\* round(score, 3): thousandths, from units of 1/3000
Round3(score) == (score + 1) \div 3

\* CONTRADICTION_RULES
NkdaMessage == "States NKDA (no known drug allergies) but also lists specific allergies"
NoMedsMessage == "States no medications but also lists specific medications"
ChiefComplaintMessage == "Chief complaint not addressed in assessment"

NkdaRule(r) == r["allergies"].tag = "nkda" /\ r["allergies"].n > 1
NoMedsRule(r) == r["medications"].tag = "none" /\ r["medications"].n > 1

\* _chief_complaint_addressed: a word of the chief complaint occurs in the
\* description of a problem of the assessment
chief_complaint_addressed(r) ==
    \/ r["chief_complaint"].t = "none"
    \/ r["chief_complaint"].n = 0 /\ r["chief_complaint"].tag = ""
    \/ r["assessment"].n = 0
    \/ r["chief_complaint"].n > 0
         /\ r["chief_complaint"].tag = r["assessment"].tag

ChiefComplaintRule(r) ==
    /\ r["chief_complaint"].t # "none"
    /\ r["assessment"].n > 0
    /\ ~chief_complaint_addressed(r)

\* A rule raises when it reads an entry whose text is not a string (a list
\* marked "bad": a record built or assigned to without validation) before
\* it has found a match.
NkdaRuleRaises(r) == r["allergies"].n > 0 /\ r["allergies"].tag = "bad"
NoMedsRuleRaises(r) == r["medications"].n > 0 /\ r["medications"].tag = "bad"
ChiefComplaintRuleRaises(r) ==
    /\ r["chief_complaint"].t # "none"
    /\ ~(r["chief_complaint"].n = 0 /\ r["chief_complaint"].tag = "")
    /\ r["assessment"].n > 0
    /\ r["assessment"].tag = "bad"

\* lines 93-97, one rule: try: if rule_fn(record): append(msg);
\* except Exception: pass
RuleMessages(raises, holds, msg) ==
    IF raises THEN <<>> ELSE IF holds THEN <<msg>> ELSE <<>>

\* a loop whose try encloses the for: the first rule that raises ends it
ContradictionsUntilRaise(r) ==
    IF NkdaRuleRaises(r) THEN <<>>
    ELSE RuleMessages(FALSE, NkdaRule(r), NkdaMessage)
           \o (IF NoMedsRuleRaises(r) THEN <<>>
               ELSE RuleMessages(FALSE, NoMedsRule(r), NoMedsMessage)
                      \o RuleMessages(ChiefComplaintRuleRaises(r),
                                      ChiefComplaintRule(r),
                                      ChiefComplaintMessage))

\* lines 91-97: the messages of the rules that match, in rule order
Contradictions(r) ==
    RuleMessages(NkdaRuleRaises(r), NkdaRule(r), NkdaMessage)
      \o RuleMessages(NoMedsRuleRaises(r), NoMedsRule(r), NoMedsMessage)
      \o RuleMessages(ChiefComplaintRuleRaises(r), ChiefComplaintRule(r),
                      ChiefComplaintMessage)

\* validate(record) -> Flags
validate(record) ==
    [ missing_fields      |-> MissingFields(record),
      contradictions      |-> Contradictions(record),
      confidence_by_field |-> compute_confidence(record),
      completeness_score  |->
          Round3(compute_completeness(MissingFields(record),
                                       compute_confidence(record))) ]

\* --------------------------------------------------- validate_and_repair
NoFlags ==
    [ missing_fields |-> <<>>, contradictions |-> <<>>,
      confidence_by_field |-> <<>>, completeness_score |-> 0 ]

\* what repair_fields can hand back under a key: nothing (the key is
\* absent), None, or a value
Absent == [t |-> "absent", n |-> 0, tag |-> ""]
UpdateKeys == RecordFields \cup {"contradictions", "bogus"}
NoUpdate == [k \in UpdateKeys |-> Absent]

IdleVr ==
    [ pc |-> "idle", input |-> EmptyRecord, record |-> EmptyRecord,
      flags |-> NoFlags, attempt |-> 0, max_repairs |-> 0,
      extractor |-> "None", fields_to_fix |-> <<>>, repaired |-> NoUpdate,
      passes |-> 0, repairs |-> 0 ]

\* the records validate_and_repair is called with
FullRecord ==
    [ chief_complaint |-> Str(5, "t1"), hpi |-> Str(5, ""),
      assessment |-> List(1, "t1"), plan |-> Str(5, ""),
      medications |-> List(1, ""), allergies |-> List(1, ""),
      follow_up |-> None ]

RecordInputs ==
    { EmptyRecord,
      [EmptyRecord EXCEPT !["chief_complaint"] = Str(1, "t1")],
      [FullRecord EXCEPT !["medications"] = List(0, ""),
                         !["allergies"] = List(0, "")],
      FullRecord,
      [FullRecord EXCEPT !["hpi"] = None],
      [FullRecord EXCEPT !["allergies"] = List(2, "nkda")] }

UpdateMaps ==
    { NoUpdate,
      [NoUpdate EXCEPT !["hpi"] = Str(5, ""), !["plan"] = Str(5, "")],
      [NoUpdate EXCEPT !["assessment"] = List(1, "t1"),
                       !["medications"] = List(1, ""),
                       !["allergies"] = List(1, "")],
      [NoUpdate EXCEPT !["hpi"] = Str(1, "unknown"), !["plan"] = None],
      [NoUpdate EXCEPT !["bogus"] = Str(5, ""),
                       !["contradictions"] = List(1, "")],
      [NoUpdate EXCEPT !["hpi"] = Str(5, ""),
                       !["plan"] = Str(1, "unknown"),
                       !["follow_up"] = None,
                       !["contradictions"] = List(1, "")],
      [NoUpdate EXCEPT !["medications"] = Str(1, "")] }

\* the outcomes of a call of extractor.repair_fields
RepairOutcomes ==
    { [raises |-> TRUE, map |-> NoUpdate] }
      \cup { [raises |-> FALSE, map |-> m] : m \in UpdateMaps }

\* a merge that writes every key of the update map that is a record field
MergeUpdateEveryKey(record, repaired) ==
    [ f \in RecordFields |->
        IF repaired[f].t # "absent" THEN repaired[f] ELSE record[f] ]

\* lines 212-217: the update map merged into record.model_dump()
MergeUpdate(record, repaired) ==
    [ f \in RecordFields |->
        IF /\ repaired[f].t # "absent"
           /\ repaired[f].t # "none"
           /\ ~(repaired[f].t = "str" /\ repaired[f].tag = "unknown")
          THEN repaired[f]
          ELSE record[f] ]

\* ClinicalRecord.model_validate(data) accepts the dict
ModelValidates(data) ==
    /\ \A f \in StrFields : data[f].t \in {"none", "str"}
    /\ \A f \in ListFields : data[f].t = "list"

\* a test that lets the loop end only when no field is missing
PassesWhenNothingMissing(flags) ==
    /\ flags.missing_fields = <<>>
    /\ flags.contradictions = <<>>

\* lines 167-170: the pass found nothing to repair
Passes(flags) ==
    /\ flags.completeness_score >= COMPLETENESS_THRESHOLD
    /\ flags.contradictions = <<>>

\* lines 174-176
FieldsToFix(flags) ==
    IF flags.contradictions # <<>>
      THEN flags.missing_fields \o <<"contradictions">>
      ELSE flags.missing_fields

\* a loop that still repairs on its last attempt
MayRepairOnLastAttempt(attempt, max_repairs) == attempt <= max_repairs

\* line 173: attempt < max_repairs
MayRepair(attempt, max_repairs) == attempt < max_repairs

\* validate_and_repair(record, note_text, extractor, locale, max_repairs)
\* is called
CallValidateAndRepair(record, extractor, max_repairs) ==
    /\ vr.pc \in {"idle", "returned", "raised"}
    /\ vr' = [IdleVr EXCEPT !.pc = "validate", !.input = record,
                            !.record = record, !.extractor = extractor,
                            !.max_repairs = max_repairs]
    /\ UNCHANGED <<qvars, wvars, rvars, ret, lvars>>

\* the for loop moves on to its next attempt, or falls out after the last
NextAttempt(v) ==
    IF v.attempt < v.max_repairs
      THEN [v EXCEPT !.pc = "validate", !.attempt = v.attempt + 1]
      ELSE [v EXCEPT !.pc = "returned"]

\* lines 164-179: one pass of the loop up to the repair call
ValidatePass ==
    /\ vr.pc = "validate"
    /\ LET flags == validate(vr.record)
           v == [vr EXCEPT !.flags = flags, !.passes = vr.passes + 1]
       IN  vr' = IF Passes(flags)
                   THEN [v EXCEPT !.pc = "returned"]
                 ELSE IF MayRepair(v.attempt, v.max_repairs)
                           /\ v.extractor # "None"
                   THEN (IF FieldsToFix(flags) = <<>>
                           THEN [v EXCEPT !.pc = "returned"]
                           ELSE [v EXCEPT !.pc = "repair",
                                          !.fields_to_fix = FieldsToFix(flags)])
                 ELSE NextAttempt(v)
    /\ UNCHANGED <<qvars, wvars, rvars, ret, lvars>>

\* lines 187-189 and _apply_repair: repair_fields raises (the record is
\* kept), or returns a map that is merged and validated
Repair(reply) ==
    /\ vr.pc = "repair"
    /\ LET v == [vr EXCEPT !.repairs = vr.repairs + 1, !.fields_to_fix = <<>>,
                           !.repaired = reply.map]
           data == MergeUpdate(vr.record, reply.map)
       IN  vr' = IF reply.raises THEN NextAttempt(v)
                 ELSE IF ModelValidates(data)
                   THEN NextAttempt([v EXCEPT !.record = data])
                 ELSE [v EXCEPT !.pc = "raised"]
    /\ UNCHANGED <<qvars, wvars, rvars, ret, lvars>>

Extractors == {"None", "extractor"}

NextRepair ==
    \/ \E record \in RecordInputs, e \in Extractors, m \in 0 .. MaxRepairs :
         CallValidateAndRepair(record, e, m)
    \/ ValidatePass
    \/ \E reply \in RepairOutcomes : Repair(reply)

\* ------------------------------------------------- validate on its own
\* the word counts either side of the confidence steps at 2 and 5 words
WordCounts == {1, 2, MaxWords}

\* the values of a string field: None, "", whitespace, words on a topic
StrValues(tags) ==
    {None, Str(0, ""), Str(0, "blank")}
      \cup { Str(n, tag) : n \in WordCounts, tag \in tags }

\* the values of a list field: [] or entries with a mark
ListValues(tags) ==
    {List(0, "")} \cup { List(n, tag) : n \in 1 .. MaxEntries, tag \in tags }

\* the records validate is called with
ValidateInputs ==
    [ chief_complaint : StrValues({"t1", "t2"}),
      hpi             : StrValues({""}),
      plan            : StrValues({""}),
      follow_up       : {None, Str(1, "")},
      assessment      : ListValues({"t1", "bad"}),
      medications     : ListValues({"", "none", "bad"}),
      allergies       : ListValues({"", "nkda", "bad"}) ]

\* validate(record) is called and returns its Flags
Validate ==
    /\ vr.pc = "input"
    /\ vr' = [vr EXCEPT !.pc = "validated", !.flags = validate(vr.record),
                        !.passes = 1]
    /\ UNCHANGED <<qvars, wvars, rvars, ret, lvars>>

NextValidate == Validate

\* ------------------------------------------------------------ the system
InitBase ==
    /\ QInit
    /\ MODE \in Modes
    /\ ex = [e \in Executors |-> IdleEx]
    /\ rh = [e \in Executors |-> IdleRh]
    /\ remote_keys = {}
    /\ encounters = {}
    /\ enc_writes = [k \in AllKeys |-> 0]
    /\ accepted = {}
    /\ posted = 0
    /\ ret = NoRet

InitCore == InitBase /\ vr = IdleVr

\* a record is at hand, validate is about to be called on it
InitValidate ==
    /\ InitBase
    /\ MODE = "prod"
    /\ LInit(SYNC_INTERVAL_SECONDS)
    /\ \E record \in ValidateInputs :
         vr = [IdleVr EXCEPT !.pc = "input", !.input = record,
                             !.record = record]

Init == InitCore /\ LInit(SYNC_INTERVAL_SECONDS)

\* the worker is constructed with one of the interval settings
InitLoop == InitCore /\ \E interval \in IntervalSettings : LInit(interval)

Next ==
    \/ Tick
    \/ \E n \in NoteIds, p \in Payloads, m \in Modes : Enqueue(n, p, m)
    \/ BeginBatch("worker")
    \/ PrepareMark("worker")
    \/ PrepareBuild("worker")
    \/ Post("worker")
    \/ TransportFail("worker")
    \/ ExceptMark("worker")
    \/ Receive("worker")
    \/ Apply("worker")
    \/ RemoteReject("worker")
    \/ RemoteAuth("worker")
    \/ RemoteCheck("worker")
    \/ RemoteWrite("worker")
    \/ RemoteSaveKey("worker")
    \/ RemoteStorageError("worker")
    \/ DropReply("worker")

Spec == Init /\ [][Next]_vars

NextRemote ==
    \/ \E c \in Executors, m \in Modes, a \in BOOLEAN,
          items \in RequestItemLists : ClientPost(c, m, a, items)
    \/ \E c \in Executors : RemoteReject(c)
    \/ \E c \in Executors : RemoteAuth(c)
    \/ \E c \in Executors : RemoteCheck(c)
    \/ \E c \in Executors : RemoteWrite(c)
    \/ \E c \in Executors : RemoteSaveKey(c)
    \/ \E c \in Executors : RemoteStorageError(c)
    \/ \E c \in Executors : DropReply(c)

\* the device setting plays no part when the endpoint or the queue is
\* driven on its own: it keeps its default
InitDefault == Init /\ MODE = "prod"

SpecRemote == InitDefault /\ [][NextRemote]_vars

\* the endpoint handling one request after the other
NextRespond ==
    \/ \E m \in Modes, a \in BOOLEAN, items \in RequestItemLists :
         ClientPost("worker", m, a, items)
    \/ RemoteReject("worker")
    \/ RemoteAuth("worker")
    \/ RemoteCheck("worker")
    \/ RemoteWrite("worker")
    \/ RemoteSaveKey("worker")
    \/ RemoteStorageError("worker")
    \/ DropReply("worker")

SpecRespond == InitDefault /\ [][NextRespond]_vars

SpecQueue == InitDefault /\ [][NextQueue]_vars

SpecRead == InitDefault /\ [][NextRead]_vars

SpecLoop == InitLoop /\ [][NextLoop]_vars

SpecThreads == InitLoop /\ [][NextThreads]_vars

SpecRepair == InitDefault /\ [][NextRepair]_vars

SpecValidate == InitValidate /\ [][NextValidate]_vars

\* the drain against a remote that cannot be reached or refuses the request
NextDrain ==
    \/ \E n \in NoteIds, p \in Payloads, m \in Modes : Enqueue(n, p, m)
    \/ BeginBatch("worker")
    \/ PrepareMark("worker")
    \/ PrepareBuild("worker")
    \/ Post("worker")
    \/ TransportFail("worker")
    \/ ExceptMark("worker")
    \/ RemoteReject("worker")
    \/ Receive("worker")
    \/ DropReply("worker")

SpecDrain == Init /\ [][NextDrain]_vars

\* the drain of a queue whose stored ciphertexts may have been altered,
\* against a remote that cannot be reached
NextPrepare ==
    \/ \E n \in NoteIds, p \in Payloads : Enqueue(n, p, MODE)
    \/ \E n \in NoteIds : Tamper(n)
    \/ BeginBatch("worker")
    \/ PrepareMark("worker")
    \/ PrepareBuild("worker")
    \/ Post("worker")
    \/ TransportFail("worker")
    \/ ExceptMark("worker")

SpecPrepare == Init /\ [][NextPrepare]_vars

\* POST /local/sync/trigger runs sync_batch of a SyncWorker of its own, on
\* the same QueueManager, while the worker thread runs its sync_batch; the
\* remote cannot be reached
NextConcurrent ==
    \/ \E n \in NoteIds : Enqueue(n, LoopPayload, MODE)
    \/ \E e \in Executors : BeginBatch(e)
    \/ \E e \in Executors : PrepareMark(e)
    \/ \E e \in Executors : PrepareBuild(e)
    \/ \E e \in Executors : TransportFail(e)
    \/ \E e \in Executors : ExceptMark(e)

SpecConcurrent == Init /\ [][NextConcurrent]_vars

\* The worker thread is scheduled (weak fairness on its steps and on the
\* remote's); the network eventually delivers and the remote eventually
\* accepts what is submitted to it again and again (strong fairness on the
\* successful outcomes).
Fairness ==
    /\ WF_vars(BeginBatch("worker"))
    /\ WF_vars(PrepareMark("worker"))
    /\ WF_vars(PrepareBuild("worker"))
    /\ WF_vars(ExceptMark("worker"))
    /\ WF_vars(Apply("worker"))
    /\ WF_vars(DropReply("worker"))
    /\ SF_vars(Post("worker"))
    /\ SF_vars(Receive("worker"))
    /\ SF_vars(RemoteAuth("worker"))
    /\ SF_vars(RemoteCheck("worker"))
    /\ SF_vars(RemoteWrite("worker"))
    /\ SF_vars(RemoteSaveKey("worker"))

FairSpec == Init /\ [][Next]_vars /\ Fairness

\* ------------------------------------------------------------- properties
RowsOf(T, n) == { r \in T : r.note_id = n }
PayloadOf(r) == decrypt_payload(r.note_id, r.ciphertext)

\* the remote accepts what this row submits: the device runs in demo mode,
\* the record is valid and no raw text goes out
Acceptable(r) ==
    /\ MODE = "demo"
    /\ PayloadOf(r).record \in ValidRecords
    /\ OutboundRawText(r, PayloadOf(r)) = NoText

\* C1: every enqueued item the remote accepts eventually reaches status
\* synced (or is replaced by a fresh enqueue of its note_id); none stays
\* forever queued, syncing or failed.
C1_EventuallySynced ==
    \A k \in AllKeys :
      (\E r \in queue_items : r.idempotency_key = k /\ Acceptable(r))
        ~> (\A r \in queue_items :
              r.idempotency_key = k => r.status = "synced")

\* C2: a row with status synced has had a submission carrying its current
\* idempotency key and its current payload accepted by the remote.
C2_SyncedWasAccepted ==
    \A r \in queue_items :
      r.status = "synced"
        => <<r.idempotency_key, PayloadOf(r).record>> \in accepted

\* C3: the encounter write for a given idempotency key is performed at most
\* once, over any sequence or interleaving of /v1/sync requests.
C3_WriteAtMostOnce == \A k \in AllKeys : enc_writes[k] <= 1

\* C4: no persisted column other than ciphertext, and no SyncAttempt field,
\* holds a value derived from the plaintext payload.
C4_NoPlaintextAtRest ==
    /\ \A r \in queue_items :
         /\ r.note_id \notin PlaintextContent
         /\ r.idempotency_key[1] \notin PlaintextContent
         /\ r.idempotency_key[2] \notin PlaintextContent
         /\ r.mode \notin PlaintextContent
         /\ r.status \notin PlaintextContent
         /\ r.fail_reason[1] \notin PlaintextContent
         /\ r.fail_reason[2] \notin PlaintextContent
    /\ \A a \in BagToSet(sync_attempts) :
         /\ a.note_id \notin PlaintextContent
         /\ a.error_message[1] \notin PlaintextContent
         /\ a.error_message[2] \notin PlaintextContent

\* C5: a row's status changes to synced only from syncing, and to syncing
\* only from queued.
C5_SyncedOnlyViaSyncing ==
    [][ \A r \in queue_items : \A q \in RowsOf(queue_items', r.note_id) :
          /\ (q.status = "synced" /\ r.status # "synced")
               => r.status = "syncing"
          /\ (q.status = "syncing" /\ r.status # "syncing")
               => r.status = "queued" ]_vars

\* C6: once a row is synced, only a fresh enqueue of its note_id changes it
\* (mark_syncing, mark_failed and reset_for_retry leave it as it is), and
\* get_pending never returns a synced row.
C6_SyncedIsTerminal ==
    [][ /\ \A r \in queue_items :
             r.status = "synced"
               => \/ r \in queue_items'
                  \/ \E p \in Payloads, m \in Modes : Enqueue(r.note_id, p, m)
        /\ \A s \in get_pending(queue_items, BatchSize) :
             \A i \in DOMAIN s : \A r \in RowsOf(queue_items, s[i].note_id) :
               r.status # "synced" ]_vars

\* C7: mark_failed(note_id, reason) writes status failed, the reason and
\* retry_count + 1 into the row in one step, and between two enqueues of a
\* note_id its retry_count never decreases.
C7_MarkFailedCountsRetries ==
    [][ /\ \A n \in NoteIds, reason \in FailReasons :
             MarkFailed(n, reason)
               => \A r \in RowsOf(queue_items, n) :
                    RowsOf(queue_items', n) =
                      { [r EXCEPT !.status = "failed",
                                  !.fail_reason = reason,
                                  !.retry_count = r.retry_count + 1] }
        /\ \A r \in queue_items : \A q \in queue_items' :
             q.idempotency_key = r.idempotency_key
               => q.retry_count >= r.retry_count ]_vars

\* a row that failed and was reset keeps its count
C7_Witness ==
    \E r \in queue_items : r.status = "queued" /\ r.retry_count >= 1

\* C8: reset_for_retry(note_id) moves a failed row back to queued keeping
\* everything else, and leaves a queued, syncing or synced row as it is.
C8_ResetOnlyFromFailed ==
    [][ \A n \in NoteIds :
          ResetForRetry(n)
            => \A r \in RowsOf(queue_items, n) :
                 RowsOf(queue_items', n) =
                   { IF r.status = "failed"
                       THEN [r EXCEPT !.status = "queued"] ELSE r } ]_vars

\* C9: after enqueue(note_id, payload, mode) the store holds exactly one
\* row for the note_id: it decrypts to that payload, carries that mode, is
\* queued, and its retry_count and fail_reason are reset; no note_id ever
\* has two rows.
C9_EnqueueReplaces ==
    [][ /\ \A n \in NoteIds, p \in Payloads, m \in Modes :
             Enqueue(n, p, m)
               => \E q \in queue_items' :
                    /\ RowsOf(queue_items', n) = {q}
                    /\ DecryptOk(q.ciphertext, n)
                    /\ PayloadOf(q) = p
                    /\ q.mode = m
                    /\ q.status = "queued"
                    /\ q.retry_count = 0
                    /\ q.fail_reason = NULL
        /\ \A n \in NoteIds : Cardinality(RowsOf(queue_items', n)) <= 1 ]_vars

\* a note_id was enqueued twice and the store holds its one, fresh row
C9_Witness ==
    /\ Len(issued) = 2
    /\ issued[1][2] = issued[2][2]
    /\ \E r \in queue_items :
         /\ RowsOf(queue_items, issued[2][2]) = {r}
         /\ r.idempotency_key = issued[2]
         /\ r.status = "queued"
         /\ r.retry_count = 0

\* C10: every enqueue returns a key <<device_id, note_id, token>> that no
\* earlier enqueue returned; a row's key changes only by an enqueue of its
\* note_id; an enqueue onto a synced row leaves it queued under a new key.
C10_FreshKeyPerEnqueue ==
    [][ /\ \A i, j \in DOMAIN issued' : i # j => issued'[i] # issued'[j]
        /\ \A i \in DOMAIN issued' :
             /\ Len(issued'[i]) = 3
             /\ issued'[i][1] = DEVICE_ID
             /\ issued'[i][2] \in NoteIds
        /\ \A n \in NoteIds, p \in Payloads, m \in Modes :
             Enqueue(n, p, m)
               => /\ \A i \in DOMAIN issued : issued[i] # issued'[Len(issued')]
                  /\ issued'[Len(issued')][2] = n
                  /\ \A q \in RowsOf(queue_items', n) :
                       /\ q.idempotency_key = issued'[Len(issued')]
                       /\ q.status = "queued"
        /\ \A r \in queue_items : \A q \in RowsOf(queue_items', r.note_id) :
             q.idempotency_key # r.idempotency_key
               => \E p \in Payloads, m \in Modes : Enqueue(r.note_id, p, m) ]_vars

\* a note_id enqueued twice is on its second cycle, under its second key
C10_Witness ==
    \E i, j \in DOMAIN issued :
      /\ i < j
      /\ issued[i][2] = issued[j][2]
      /\ \E r \in queue_items :
           r.idempotency_key = issued[j] /\ r.status = "synced"

\* the limits get_pending is called with
Limits == 0 .. BatchSize

\* C11: get_pending(limit) returns at most limit items, each a queued row,
\* oldest created_at first, and no queued row left out of the result is
\* older than a row that is returned.
C11_PendingOldestFirst ==
    \A limit \in Limits : \A s \in get_pending(queue_items, limit) :
      /\ Len(s) <= limit
      /\ \A i \in DOMAIN s :
           \E r \in queue_items :
             r.status = "queued" /\ PendingColumns(r) = s[i]
      /\ \A i, j \in DOMAIN s :
           i < j => s[i].note_id # s[j].note_id
                      /\ s[i].created_at <= s[j].created_at
      /\ \A r \in queue_items :
           (r.status = "queued" /\ \A i \in DOMAIN s : s[i].note_id # r.note_id)
             => /\ Len(s) = limit
                /\ \A i \in DOMAIN s : s[i].created_at <= r.created_at

\* more rows are queued than the limit admits and a newer one is left out
C11_Witness ==
    \E s \in get_pending(queue_items, 1) : \E r \in queue_items :
      /\ Len(s) = 1
      /\ r.status = "queued"
      /\ r.note_id # s[1].note_id
      /\ r.created_at > s[1].created_at

C13_DecryptFailuresIsolated ==
    [][ GetAllDecrypted
          => /\ queue_items' = queue_items
             /\ Len(ret'.val) = Cardinality(queue_items)
             /\ \A r \in queue_items :
                  \E i \in DOMAIN ret'.val :
                    /\ \A j \in DOMAIN ret'.val :
                         ret'.val[j].note_id = r.note_id => j = i
                    /\ ret'.val[i].note_id = r.note_id
                    /\ ret'.val[i].status = r.status
                    /\ IF r.ciphertext.intact /\ r.ciphertext.aad = r.note_id
                         THEN /\ "error" \notin DOMAIN ret'.val[i]
                              /\ ret'.val[i].record = json_loads(r.ciphertext.box).record
                              /\ ret'.val[i].flags = json_loads(r.ciphertext.box).flags
                         ELSE /\ "record" \notin DOMAIN ret'.val[i]
                              /\ ret'.val[i].error = "Decryption failed" ]_vars

\* the listing holds the error marker of one row next to the payload of
\* another
C13_Witness ==
    /\ ret.op = "get_all_decrypted"
    /\ \E i, j \in DOMAIN ret.val :
         /\ "error" \in DOMAIN ret.val[i]
         /\ "record" \in DOMAIN ret.val[j]

\* C14: an item of an outbound batch whose row was enqueued with mode demo
\* carries raw_note_text = null, whatever its stored payload holds and
\* whatever the MODE setting of the device is.
C14_DemoItemsCarryNoRawText ==
    \A e \in Executors :
      /\ \A i \in DOMAIN ex[e].items : \A j \in DOMAIN ex[e].pending :
           ( /\ ex[e].pending[j].idempotency_key = ex[e].items[i].idempotency_key
             /\ ex[e].pending[j].mode = "demo" )
             => ex[e].items[i].raw_note_text = NoText
      /\ ex[e].pc = "wait" => rh[e].req.items = ex[e].items

\* a prod device has posted a batch with an item of a demo row whose
\* stored payload holds raw note text
C14_Witness ==
    /\ MODE = "prod"
    /\ ex["worker"].pc = "wait"
    /\ \E i \in DOMAIN rh["worker"].req.items :
         \E j \in DOMAIN ex["worker"].pending :
           LET row == ex["worker"].pending[j]
           IN  /\ row.idempotency_key =
                    rh["worker"].req.items[i].idempotency_key
               /\ row.mode = "demo"
               /\ decrypt_payload(row.note_id, row.ciphertext).raw_note_text
                    # NoText

\* C15: when the submission of a batch fails in transport, each item of the
\* batch is marked failed with the error message, its retry_count grows by
\* one, one SyncAttempt with success = false is appended for it, and
\* sync_batch returns synced_count 0.
C15_TransportFailureFailsBatch ==
    [][ /\ TransportFail("worker")
            => ex'["worker"].pc = "except" /\ ex'["worker"].idx = 1
        /\ ExceptMark("worker")
            => LET w == ex["worker"]
                   nid == w.items[w.idx].note_id
                   att == SyncAttempt(nid, FALSE, 0, TransportError)
               IN  /\ \A r \in queue_items :
                        IF r.note_id = nid
                          THEN RowsOf(queue_items', nid) =
                                 { [r EXCEPT !.status = "failed",
                                             !.fail_reason = TransportError,
                                             !.retry_count = r.retry_count + 1] }
                          ELSE r \in queue_items'
                   /\ att.success = FALSE
                   /\ CopiesIn(att, sync_attempts')
                        = CopiesIn(att, sync_attempts) + 1
                   /\ BagCardinality(sync_attempts')
                        = BagCardinality(sync_attempts) + 1
                   /\ IF w.idx < Len(w.items)
                        THEN /\ ex'["worker"].pc = "except"
                             /\ ex'["worker"].idx = w.idx + 1
                        ELSE /\ ex'["worker"].pc = "idle"
                             /\ ex'["worker"].result.synced_count = 0 ]_vars

\* a batch of two items failed in transport: both rows are failed, counted
\* and audited once, and sync_batch returned synced_count 0
C15_Witness ==
    /\ ex["worker"].pc = "idle"
    /\ ex["worker"].result = [synced_count |-> 0, failed_count |-> 2]
    /\ \A n \in NoteIds :
         /\ \E r \in queue_items :
              /\ r.note_id = n
              /\ r.status = "failed"
              /\ r.fail_reason = TransportError
              /\ r.retry_count = 1
         /\ CopiesIn(SyncAttempt(n, FALSE, 0, TransportError), sync_attempts) = 1

\* C16: the thread of _run_loop ends only at the loop test, when stop() has
\* cleared the running flag; a failed probe or an exception out of
\* sync_batch backs off and sleeps, and the sleep leads back to the loop
\* test; only stop() clears the flag.
C16_LoopSurvivesExceptions ==
    [][ /\ (loop_pc # "done" /\ loop_pc' = "done")
             => loop_pc = "top" /\ ~running
        /\ (running /\ ~running') => Stop
        /\ LoopExcept
             => /\ loop_pc' = "sleep"
                /\ backoff' = Min(2 * backoff, 300 * Unit)
                /\ running' = running
        /\ Probe(FALSE)
             => /\ loop_pc' = "sleep"
                /\ backoff' = Min(2 * backoff, 300 * Unit)
                /\ running' = running
        /\ (loop_pc = "sleep" /\ loop_pc' # "sleep") => loop_pc' = "top"
        /\ (loop_pc = "top" /\ running /\ loop_pc' # "top")
             => loop_pc' = "probe" ]_vars

\* sync_batch raised, the loop slept and is probing again
C16_Witness ==
    /\ outcome = "raised"
    /\ running
    /\ loop_pc = "probe"

\* the interval after an iteration: the minimum when the batch synced an
\* item, 1.5 times the previous (capped at 300s) when the probe succeeded
\* and nothing synced, twice the previous (capped) when the probe failed or
\* the iteration raised; nothing else changes it
IntervalRule ==
    /\ LoopAfterBatch
         => backoff' = IF ex["worker"].result.synced_count > 0
                         THEN min_backoff
                         ELSE Min((3 * backoff) \div 2, 300 * Unit)
    /\ (Probe(FALSE) \/ LoopExcept)
         => backoff' = Min(2 * backoff, 300 * Unit)
    /\ ~(LoopAfterBatch \/ Probe(FALSE) \/ LoopExcept) => backoff' = backoff
    /\ min_backoff' = min_backoff
    /\ (3 * backoff) % 2 = 0

IntervalInRange(b) == min_backoff <= b /\ b <= 300 * Unit

C18_RepairBound ==
    vr.pc # "idle"
      => /\ vr.passes <= vr.max_repairs + 1
         /\ vr.repairs <= vr.max_repairs
         /\ vr.attempt <= vr.max_repairs
         /\ vr.pc = "validate" => vr.passes = vr.attempt
         /\ vr.pc = "repair" => vr.passes = vr.attempt + 1
         /\ vr.pc = "returned" => vr.flags = validate(vr.record)

\* an extractor that never improved the record was called max_repairs = 2
\* times, and the record came back as it was, still below the threshold
C18_Witness ==
    /\ vr.pc = "returned"
    /\ vr.extractor # "None"
    /\ vr.max_repairs = 2
    /\ vr.passes = 3
    /\ vr.repairs = 2
    /\ vr.record = vr.input
    /\ vr.flags.completeness_score < COMPLETENESS_THRESHOLD

\* C19: without an extractor validate_and_repair makes exactly one
\* validation pass and returns the input record with the Flags of that
\* pass, for every record and every max_repairs.
C19_OnePassWithoutExtractor ==
    vr.extractor = "None"
      => /\ vr.passes <= 1
         /\ vr.pc = "returned"
              => /\ vr.passes = 1
                 /\ vr.record = vr.input
                 /\ vr.flags = validate(vr.input)

\* the reply of repair_fields is a failure: it raises, or its map has a
\* key that is no record field or a value of the wrong type for its field
FaultyReply(reply) ==
    \/ reply.raises
    \/ \E k \in UpdateKeys \ RecordFields : reply.map[k].t # "absent"
    \/ \E f \in StrFields : reply.map[f].t = "list"
    \/ \E f \in ListFields : reply.map[f].t = "str"

\* C20: when repair_fields raises or returns a map with unknown keys or a
\* value of the wrong type, validate_and_repair does not raise: it goes on
\* with the record unrepaired for that attempt.
C20_RepairFailureNotPropagated ==
    [][ \A reply \in RepairOutcomes :
          (Repair(reply) /\ FaultyReply(reply))
            => vr'.pc # "raised" /\ vr'.record = vr.record ]_vars

\* the names of the required and of the critical fields
RequiredSet == { REQUIRED_FIELDS[i] : i \in DOMAIN REQUIRED_FIELDS }
CriticalSet == { CRITICAL_FIELDS[i] : i \in DOMAIN CRITICAL_FIELDS }

\* a value that is null, an empty collection or a blank string
NullEmptyOrBlank(v) ==
    \/ v.t = "none"
    \/ v.t = "list" /\ v.n = 0
    \/ v.t = "str" /\ v.n = 0

\* low = 0.33, medium = 0.66, high = 1.0, in hundredths
NumericHundredths == [low |-> 33, medium |-> 66, high |-> 100]

Abs(x) == IF x < 0 THEN -x ELSE x

\* 0.5 (present_required / 6) + 0.3 (1 - missing_critical / 3)
\* + 0.2 mean(confidence numeric), clamped to [0, 1], times 3000
FormulaScore(record, confidence) ==
    LET present == Cardinality({ f \in RequiredSet :
                                   ~NullEmptyOrBlank(record[f]) })
        missing_critical == Cardinality({ f \in CriticalSet :
                                            NullEmptyOrBlank(record[f]) })
        c(i) == NumericHundredths[confidence[REQUIRED_FIELDS[i]]]
        x == 250 * present + 300 * (3 - missing_critical)
               + c(1) + c(2) + c(3) + c(4) + c(5) + c(6)
    IN  IF x < 0 THEN 0 ELSE IF x > 3000 THEN 3000 ELSE x

\* C21: the completeness_score validate returns is the value of the
\* formula rounded to the nearest thousandth; it lies in [0, 1], is below
\* 0.5 when all six required fields are missing (the empty record), and is
\* at least 0.8 when all six are present.
C21_CompletenessScore ==
    vr.pc = "validated"
      => LET score == vr.flags.completeness_score
             exact == FormulaScore(vr.record, vr.flags.confidence_by_field)
         IN  /\ score \in 0 .. 1000
             /\ 2 * Abs(3 * score - exact) <= 3
             /\ (\A f \in RequiredSet : NullEmptyOrBlank(vr.record[f]))
                  => score < 500
             /\ (\A f \in RequiredSet : ~NullEmptyOrBlank(vr.record[f]))
                  => score >= 800

\* all six required fields are present, one of the three strings with a
\* single word: 0.5 + 0.3 + 0.2 * (5.33 / 6) = 0.97767 is returned as 0.978
C21_Witness ==
    /\ vr.pc = "validated"
    /\ \A f \in RequiredSet : ~NullEmptyOrBlank(vr.record[f])
    /\ vr.record["hpi"].n = MaxWords
    /\ vr.record["plan"].n = 1
    /\ vr.record["chief_complaint"].n = MaxWords
    /\ vr.flags.completeness_score = 978

\* C22: the missing_fields validate returns list, once each, exactly the
\* required fields whose value is null, an empty collection or a blank
\* string; every field listed has confidence low; the empty record has all
\* six listed and a record with all six populated has none.
C22_MissingFields ==
    vr.pc = "validated"
      => LET missing == vr.flags.missing_fields
         IN  /\ { missing[i] : i \in DOMAIN missing }
                  = { f \in RequiredSet : NullEmptyOrBlank(vr.record[f]) }
             /\ \A i, j \in DOMAIN missing : missing[i] = missing[j] => i = j
             /\ \A i \in DOMAIN missing :
                  vr.flags.confidence_by_field[missing[i]] = "low"
             /\ vr.record = EmptyRecord => Len(missing) = 6
             /\ (\A f \in RequiredSet : ~NullEmptyOrBlank(vr.record[f]))
                  => missing = <<>>

\* a record whose hpi is a string of whitespace and whose assessment is
\* empty, all else populated: the two are listed as missing, in the order
\* of the required fields
C22_Witness ==
    /\ vr.pc = "validated"
    /\ vr.record["hpi"] = Str(0, "blank")
    /\ vr.record["chief_complaint"].n = MaxWords
    /\ vr.flags.missing_fields = <<"hpi", "assessment">>

\* C23: the contradictions validate returns hold, once each, exactly the
\* messages of the rules whose condition holds for the record; a rule that
\* raises adds no message and the rules after it are still evaluated; an
\* allergy list with an NKDA entry and other entries yields the NKDA
\* message.
C23_ContradictionsAccumulate ==
    vr.pc = "validated"
      => LET c == vr.flags.contradictions
             r == vr.record
         IN  /\ InSeq(NkdaMessage, c) <=> (~NkdaRuleRaises(r) /\ NkdaRule(r))
             /\ InSeq(NoMedsMessage, c)
                  <=> (~NoMedsRuleRaises(r) /\ NoMedsRule(r))
             /\ InSeq(ChiefComplaintMessage, c)
                  <=> (~ChiefComplaintRuleRaises(r) /\ ChiefComplaintRule(r))
             /\ \A i \in DOMAIN c :
                  c[i] \in {NkdaMessage, NoMedsMessage, ChiefComplaintMessage}
             /\ \A i, j \in DOMAIN c : c[i] = c[j] => i = j
             /\ (r["allergies"].tag = "nkda" /\ r["allergies"].n >= 2)
                  => InSeq(NkdaMessage, c)

\* the allergies are NKDA and one other entry, the medication rule raises
\* on an entry without a name, and the chief complaint shares no word with
\* the assessment: the first and the third message are returned
C23_Witness ==
    /\ vr.pc = "validated"
    /\ vr.record["allergies"] = List(2, "nkda")
    /\ NoMedsRuleRaises(vr.record)
    /\ vr.record["chief_complaint"].tag = "t2"
    /\ vr.record["assessment"].tag = "t1"
    /\ vr.flags.contradictions = <<NkdaMessage, ChiefComplaintMessage>>

\* C24: once sync_batch has returned, whatever the remote replied, no row
\* is left in syncing: every row the call marked syncing is synced or
\* failed (or was replaced by a new enqueue).
C24_NoItemLeftSyncing ==
    ex["worker"].pc = "idle"
      => \A r \in queue_items : r.status # "syncing"

\* C25: a row of the queue is never in the batch of both the triggered and
\* the worker's sync_batch: no two drain executions select and submit the
\* same enqueue.
C25_SingleWriter ==
    \A i \in DOMAIN ex["worker"].items, j \in DOMAIN ex["trigger"].items :
        ex["worker"].items[i].idempotency_key
          # ex["trigger"].items[j].idempotency_key

\* C26: for every sequence of start() and stop() calls, at most one thread
\* is inside the body of the loop of _run_loop: the thread a stop() left
\* behind never iterates again beside the thread a later start() started.
C26_OneLoopThread ==
    ~(/\ running
      /\ loop_pc \in {"probe", "batch", "sleep"}
      /\ stale_pc = "probe")

\* preparing the pending row raises: its ciphertext does not decrypt, or
\* its record is refused by SyncItem
PrepareRaises(row) ==
    \/ ~DecryptOk(row.ciphertext, row.note_id)
    \/ decrypt_payload(row.note_id, row.ciphertext).record \notin ValidRecords

\* str(e) of what preparing the row raises
PrepareError(row) ==
    IF ~DecryptOk(row.ciphertext, row.note_id) THEN DecryptErrorMessage
    ELSE ValidationErrorMessage(decrypt_payload(row.note_id, row.ciphertext))

\* the SyncItems of the pending rows whose preparation does not raise
RECURSIVE PreparedItems(_)
PreparedItems(pending) ==
    IF pending = <<>> THEN <<>>
    ELSE LET row == Head(pending)
         IN  (IF PrepareRaises(row) THEN <<>>
              ELSE <<SyncItem(row, decrypt_payload(row.note_id,
                                                   row.ciphertext))>>)
               \o PreparedItems(Tail(pending))

\* C27: when preparing a pending row raises, its note is marked failed with
\* the error as fail_reason and retry_count + 1 and is left out of the
\* batch, the preparation goes on with the next pending row, the request
\* posted carries every pending row that did not raise, and when every row
\* raised no request is sent and failed_count is the number of pending
\* rows.
C27_ItemFailureKeepsBatch ==
    [][ /\ PrepareBuild("worker")
            => LET w == ex["worker"]
                   w2 == ex'["worker"]
                   row == w.pending[w.idx]
               IN  /\ PrepareRaises(row)
                        => /\ \A r \in queue_items :
                                IF r.note_id = row.note_id
                                  THEN RowsOf(queue_items', row.note_id) =
                                         { [r EXCEPT !.status = "failed",
                                               !.fail_reason = PrepareError(row),
                                               !.retry_count = r.retry_count + 1] }
                                  ELSE r \in queue_items'
                           /\ w2.pc # "idle" => w2.items = w.items
                   /\ ~PrepareRaises(row)
                        => /\ queue_items' = queue_items
                           /\ w2.items = Append(w.items,
                                  SyncItem(row, decrypt_payload(row.note_id,
                                                               row.ciphertext)))
                   /\ w.idx < Len(w.pending)
                        => /\ w2.pc = "mark"
                           /\ w2.idx = w.idx + 1
                           /\ w2.pending = w.pending
                   /\ w.idx = Len(w.pending)
                        => IF PreparedItems(w.pending) = <<>>
                             THEN /\ w2.pc = "idle"
                                  /\ w2.result = [synced_count |-> 0,
                                        failed_count |-> Len(w.pending)]
                                  /\ rh' = rh
                             ELSE /\ w2.pc = "post"
                                  /\ w2.items = PreparedItems(w.pending)
        /\ Post("worker")
            => /\ ex["worker"].items # <<>>
               /\ rh'["worker"].req.items = PreparedItems(ex["worker"].pending)
      ]_vars

\* two rows were pending, the first did not decrypt: its note is failed
\* with the decryption error and retry_count 1, and the request that was
\* posted carries the second row alone
C27_Witness ==
    /\ ex["worker"].pc = "wait"
    /\ Len(ex["worker"].pending) = 2
    /\ PrepareRaises(ex["worker"].pending[1])
    /\ Len(rh["worker"].req.items) = 1
    /\ rh["worker"].req.items[1].note_id = ex["worker"].pending[2].note_id
    /\ \E r \in queue_items :
         /\ r.note_id = ex["worker"].pending[1].note_id
         /\ r.status = "failed"
         /\ r.fail_reason = DecryptErrorMessage
         /\ r.retry_count = 1

\* the update map carries new information for the field: the key is there
\* and its value is neither None nor the string unknown
CarriesValue(repaired, f) ==
    /\ repaired[f].t \notin {"absent", "none"}
    /\ ~(repaired[f].t = "str" /\ repaired[f].tag = "unknown")

\* C28: a repair step changes a field of the record only if the update map
\* has that field with a value that is neither None nor "unknown", and
\* then to that value; fields absent from the map and keys that are no
\* record fields leave the record as it is.
C28_RepairMergeFrame ==
    [][ \A reply \in RepairOutcomes :
          Repair(reply)
            => /\ DOMAIN vr'.record = RecordFields
               /\ \A f \in RecordFields :
                    vr'.record[f] # vr.record[f]
                      => /\ ~reply.raises
                         /\ CarriesValue(reply.map, f)
                         /\ vr'.record[f] = reply.map[f] ]_vars

\* the update map had a new hpi, "unknown" for plan, None for follow_up and
\* a key contradictions: after the repair step hpi has the new value and
\* every other field is as it was given
C28_Witness ==
    /\ vr.repairs = 1
    /\ vr.pc # "raised"
    /\ vr.repaired["hpi"] = Str(5, "")
    /\ vr.repaired["plan"] = Str(1, "unknown")
    /\ vr.repaired["follow_up"] = None
    /\ vr.repaired["contradictions"] # Absent
    /\ vr.input["hpi"] = None
    /\ vr.record["hpi"] = Str(5, "")
    /\ \A f \in RecordFields \ {"hpi"} : vr.record[f] = vr.input[f]

\* C29: what validate_and_repair returns is a record together with the
\* Flags of that very record, for every extractor and every max_repairs
\* from 0 on; and repair_fields is called only after a pass that found a
\* score below 0.8 or a contradiction, never after a pass that found
\* neither.
C29_FlagsDescribeReturnedRecord ==
    /\ vr.pc = "returned"
         => /\ vr.passes >= 1
            /\ vr.flags = validate(vr.record)
    /\ vr.pc = "repair"
         => /\ vr.flags = validate(vr.record)
            /\ \/ vr.flags.completeness_score < 800
               \/ vr.flags.contradictions # <<>>
    /\ (vr.pc = "validate" /\ vr.passes >= 1)
         => \/ vr.flags.completeness_score < 800
            \/ vr.flags.contradictions # <<>>

\* a record with a missing hpi scores 0.894 without contradictions: with an
\* extractor at hand and two repairs allowed it is returned after one pass,
\* with the Flags that name hpi as missing, and repair_fields was not called
C29_Witness ==
    /\ vr.pc = "returned"
    /\ vr.extractor # "None"
    /\ vr.max_repairs = 2
    /\ vr.passes = 1
    /\ vr.repairs = 0
    /\ vr.flags.missing_fields = <<"hpi">>
    /\ vr.flags.completeness_score = 894
    /\ vr.flags = validate(vr.record)

\* how many entries of the sequence carry the note id
CountSynced(n, synced) ==
    Cardinality({ i \in DOMAIN synced : synced[i] = n })
CountNoteId(n, entries) ==
    Cardinality({ i \in DOMAIN entries : entries[i].note_id = n })

\* C30: the response of a /v1/sync request that was processed has, for
\* every note id, as many entries in synced and failed together as the
\* request has items with that note id: each submitted item is answered
\* exactly once, in one of the two lists, and nothing else is answered;
\* while the request is processed the items before the current one have
\* been answered and no other.
C30_EachItemAnsweredOnce ==
    \A c \in Executors :
        LET h == rh[c]
        IN  /\ (h.pc = "done" /\ h.code = 200)
                 => /\ Len(h.synced) + Len(h.failed) = Len(h.req.items)
                    /\ \A n \in NoteIds :
                         CountSynced(n, h.synced) + CountNoteId(n, h.failed)
                           = CountNoteId(n, h.req.items)
            /\ h.pc \in {"item", "write", "savekey"}
                 => \A n \in NoteIds :
                      CountSynced(n, h.synced) + CountNoteId(n, h.failed)
                        = CountNoteId(n, SubSeq(h.req.items, 1, h.idx - 1))

\* a demo request of two items, the first with raw text: the response
\* reports the first failed for its raw text and the second synced
C30_Witness ==
    \E c \in Executors :
        /\ rh[c].pc = "done"
        /\ rh[c].code = 200
        /\ Len(rh[c].req.items) = 2
        /\ rh[c].req.items[1].raw_note_text # NoText
        /\ rh[c].failed = <<[note_id |-> rh[c].req.items[1].note_id,
                             reason |-> DemoRawTextReason]>>
        /\ rh[c].synced = <<rh[c].req.items[2].note_id>>

====
